---- MODULE Spec2Model ----
(***************************************************************************)
(* Model of src/partition/ncube.rs: the N-cube partitioning scheme.        *)
(*                                                                         *)
(* Scalars (S: BaseFloat) are modelled as exact dyadic rationals m / 2^e,  *)
(* kept normalised, so that halving, doubling, addition and comparison are *)
(* computed exactly; rounding, overflow and underflow of a concrete float  *)
(* type are outside the model.  Points (P) are tuples of Dim scalars; the  *)
(* source indexes axes 0..N-1, the model 1..Dim, so axis i of the model is *)
(* bit i-1 of a child index.                                               *)
(***************************************************************************)
EXTENDS Integers, Sequences, FiniteSets, TLC

\* ------------------------------------------------------------------ bounds
MaxDepth == 2      \* generations of children below the region built by new
GridExp == 2       \* point coordinates are multiples of 1 / 2^GridExp
GridMax == 4       \* ... in the range -GridMax .. GridMax grid steps
MaxWidth == 2      \* widths passed to new range over -1 .. MaxWidth

\* Dimension::dimension(None::<P>) for P = Point2 (the tested instance)
Dim == 2

\* ------------------------------------------------- scalars (S: BaseFloat)
RECURSIVE Norm(_, _)
Norm(m, e) == IF e > 0 /\ m % 2 = 0 THEN Norm(m \div 2, e - 1)
              ELSE [m |-> m, e |-> e]

Dy(m, e) == Norm(m, e)

zero == Dy(0, 0)

MaxOf(a, b) == IF a >= b THEN a ELSE b

\* numerator of a over the common denominator 2^e (e >= a.e)
Scaled(a, e) == a.m * 2^(e - a.e)

Add(a, b) == LET e == MaxOf(a.e, b.e) IN Norm(Scaled(a, e) + Scaled(b, e), e)

Neg(a) == [m |-> -a.m, e |-> a.e]

Sub(a, b) == Add(a, Neg(b))

Mul2(a) == Norm(2 * a.m, a.e)

Div2(a) == Norm(a.m, a.e + 1)

Lt(a, b) == LET e == MaxOf(a.e, b.e) IN Scaled(a, e) < Scaled(b, e)

Le(a, b) == LET e == MaxOf(a.e, b.e) IN Scaled(a, e) <= Scaled(b, e)

Gt(a, b) == Lt(b, a)

\* ------------------------------------------------------------ input sets
Coords == {Dy(k, GridExp) : k \in -GridMax..GridMax}

Points == [1..Dim -> Coords]

Centers == {<<Dy(0, 0), Dy(0, 0)>>, <<Dy(1, 2), Dy(-1, 1)>>}

Widths == {Dy(k, 0) : k \in -1..MaxWidth}

\* ------------------------------------------------------------ struct Ncube
Ncube(center, width) == [center |-> center, width |-> width]

\* placeholder for "no region value" (never a value the program holds)
NoCube == [center |-> <<>>, width |-> zero]

\* ---------------------------------------------------------- Ncube::new
\* assert!(width > zero()); Ncube { center: center, width: width }
\* panic = TRUE: the assertion failed, the call unwinds and returns nothing.

\* variant: the assertion written as width >= zero()
new_accept0(center, width) ==
    IF Le(zero, width) THEN [panic |-> FALSE, value |-> Ncube(center, width)]
    ELSE [panic |-> TRUE, value |-> NoCube]

\* variant: a failure value handed back to the caller instead of a panic
new_typed(center, width) ==
    IF Gt(width, zero) THEN [panic |-> FALSE, value |-> Ncube(center, width)]
    ELSE [panic |-> FALSE, value |-> NoCube]

new(center, width) ==
    IF Gt(width, zero) THEN [panic |-> FALSE, value |-> Ncube(center, width)]
    ELSE [panic |-> TRUE, value |-> NoCube]

\* ------------------------------------------------- Ncube::width / center
width(self) == self.width

center(self) == self.center

\* -------------------------------------------------- Subdivide::subdivide
\* variant: axis bits read in the opposite order
subdivide_bitorder(self) ==
    LET new_width == Div2(self.width)
        dx == Div2(new_width)
    IN  [k \in 1..(2^Dim) |->
            LET n == k - 1
            IN  Ncube([i \in 1..Dim |->
                          Add(self.center[i],
                              IF (n \div 2^(Dim - i)) % 2 = 0 THEN Neg(dx) ELSE dx)],
                      new_width)]

\* variant: the offset is the new width instead of half of it
subdivide_dxfull(self) ==
    LET new_width == Div2(self.width)
        dx == new_width
    IN  [k \in 1..(2^Dim) |->
            LET n == k - 1
            IN  Ncube([i \in 1..Dim |->
                          Add(self.center[i],
                              IF (n \div 2^(i - 1)) % 2 = 0 THEN Neg(dx) ELSE dx)],
                      new_width)]

\* variant: the width is halved by a truncating (integer) division
subdivide_trunc(self) ==
    LET new_width == Dy(self.width.m \div 2^(self.width.e + 1), 0)
        dx == Div2(new_width)
    IN  [k \in 1..(2^Dim) |->
            LET n == k - 1
            IN  Ncube([i \in 1..Dim |->
                          Add(self.center[i],
                              IF (n \div 2^(i - 1)) % 2 = 0 THEN Neg(dx) ELSE dx)],
                      new_width)]

subdivide(self) ==
    LET new_width == Div2(self.width)
        dx == Div2(new_width)
    IN  [k \in 1..(2^Dim) |->
            LET n == k - 1
            IN  Ncube([i \in 1..Dim |->
                          Add(self.center[i],
                              IF (n \div 2^(i - 1)) % 2 = 0 THEN Neg(dx) ELSE dx)],
                      new_width)]

\* --------------------------------------------------- Partition::contains
\* variant: open at the maximum, closed at the minimum
contains_swapped(self, elem) ==
    \A i \in 1..Dim :
        LET off == Mul2(Sub(self.center[i], elem[i]))
        IN  Lt(Neg(self.width), off) /\ Le(off, self.width)

\* variant: closed at both ends
contains_closed(self, elem) ==
    \A i \in 1..Dim :
        LET off == Mul2(Sub(self.center[i], elem[i]))
        IN  Le(Neg(self.width), off) /\ Le(off, self.width)

contains(self, elem) ==
    \A i \in 1..Dim :
        LET off == Mul2(Sub(self.center[i], elem[i]))
        IN  Le(Neg(self.width), off) /\ Lt(off, self.width)

\* --------------------------------------------------- Partition::dispatch
RECURSIVE fold(_, _)
fold(a, bs) == IF bs = <<>> THEN a ELSE fold(a + Head(bs), Tail(bs))

\* variant: a coordinate equal to the center goes to the lower half
dispatch_le(self, elem) ==
    fold(0, [k \in 1..Dim |-> IF Le(elem[k], self.center[k]) THEN 0 ELSE 2^(k - 1)])

\* variant: the first axis is the most significant bit
dispatch_bigendian(self, elem) ==
    fold(0, [k \in 1..Dim |-> IF Lt(elem[k], self.center[k]) THEN 0 ELSE 2^(Dim - k)])

dispatch(self, elem) ==
    fold(0, [k \in 1..Dim |-> IF Lt(elem[k], self.center[k]) THEN 0 ELSE 2^(k - 1)])

\* ------------------------------------------------------------------ state
\* cube     : the region built by new, or the one last subdivided
\* kids     : the Vec returned by the last subdivide (children of cube)
\* elem     : the point the caller passes to contains and dispatch
\* ret      : the last call: operation, receiver, arguments, returned value
\* panicked : the assertion of new has failed
\* depth    : number of halvings between the region built by new and kids
VARIABLES cube, kids, elem, ret, panicked, depth

vars == <<cube, kids, elem, ret, panicked, depth>>

Range(s) == {s[i] : i \in 1..Len(s)}

\* the region values the program holds
Existing == (IF cube = NoCube THEN {} ELSE {cube}) \cup Range(kids)

Ret(op, self, arg, val) == [op |-> op, self |-> self, arg |-> arg, val |-> val]

Init ==
    /\ cube = NoCube
    /\ kids = <<>>
    /\ elem \in Points
    /\ ret = Ret("none", NoCube, <<>>, <<>>)
    /\ panicked = FALSE
    /\ depth = 0

New(c, w) ==
    /\ ~panicked
    /\ cube = NoCube
    /\ cube' = new(c, w).value
    /\ panicked' = new(c, w).panic
    /\ ret' = Ret("new", NoCube, <<c, w>>, new(c, w))
    /\ UNCHANGED <<kids, elem, depth>>

Width(self) ==
    /\ ~panicked
    /\ ret' = Ret("width", self, <<>>, width(self))
    /\ UNCHANGED <<cube, kids, elem, panicked, depth>>

Center(self) ==
    /\ ~panicked
    /\ ret' = Ret("center", self, <<>>, center(self))
    /\ UNCHANGED <<cube, kids, elem, panicked, depth>>

Subdivide(self) ==
    /\ ~panicked
    /\ depth' = (IF kids = <<>> \/ self \in Range(kids) THEN depth + 1 ELSE depth)
    /\ depth' <= MaxDepth
    /\ cube' = self
    /\ kids' = subdivide(self)
    /\ ret' = Ret("subdivide", self, <<>>, subdivide(self))
    /\ UNCHANGED <<elem, panicked>>

Contains(self) ==
    /\ ~panicked
    /\ ret' = Ret("contains", self, elem, contains(self, elem))
    /\ UNCHANGED <<cube, kids, elem, panicked, depth>>

Dispatch(self) ==
    /\ ~panicked
    /\ ret' = Ret("dispatch", self, elem, dispatch(self, elem))
    /\ UNCHANGED <<cube, kids, elem, panicked, depth>>

Next ==
    \/ \E c \in Centers, w \in Widths : New(c, w)
    \/ \E self \in Existing : Width(self)
    \/ \E self \in Existing : Center(self)
    \/ \E self \in Existing : Subdivide(self)
    \/ \E self \in Existing : Contains(self)
    \/ \E self \in Existing : Dispatch(self)

Spec == Init /\ [][Next]_vars

TypeOK ==
    /\ panicked \in BOOLEAN
    /\ depth \in 0..MaxDepth
    /\ Len(kids) \in {0, 2^Dim}

\* ------------------------------------------------- geometry of the claims
Children == 0..(2^Dim - 1)

\* bit i-1 of the child index n (axis i of the model)
Bit(n, i) == (n \div 2^(i - 1)) % 2

\* h = width / 2
HalfWidth(c) == Div2(c.width)

\* center_i - h < p_i <= center_i + h on every axis
InBox(c, p) ==
    \A i \in 1..Dim : /\ Lt(Sub(c.center[i], HalfWidth(c)), p[i])
                      /\ Le(p[i], Add(c.center[i], HalfWidth(c)))

\* strictly between the minimum and the maximum bound on every axis
StrictlyInside(c, p) ==
    \A i \in 1..Dim : /\ Lt(Sub(c.center[i], HalfWidth(c)), p[i])
                      /\ Lt(p[i], Add(c.center[i], HalfWidth(c)))

\* the last call was op on the subdivided region, whose children are kids
OnParent(op) == kids # <<>> /\ ret.op = op /\ ret.self = cube

\* C1: for every point p contained in a region C, the child
\* subdivide(C)[dispatch(C, p)] contains p and is the only child that does,
\* also when a coordinate of p equals the center of C.
C1_DispatchSubdivideAlignment ==
    (OnParent("dispatch") /\ contains(cube, ret.arg)) =>
        /\ contains(kids[ret.val + 1], ret.arg)
        /\ \A n \in Children : contains(kids[n + 1], ret.arg) => n = ret.val

\* C2: for every point p contained in a region C, exactly one child of
\* subdivide(C) contains p, also on a hyperplane shared by sibling children.
C2_PartitionCompleteness ==
    (OnParent("contains") /\ ret.val) =>
        Cardinality({n \in Children : contains(kids[n + 1], ret.arg)}) = 1

\* a contained point on the hyperplane the children share on the first axis
C2_Witness ==
    /\ OnParent("contains") /\ ret.val
    /\ ret.arg[1] = cube.center[1]

\* C3: contains(C, p) is true exactly when center_i - h < p_i <= center_i + h
\* on every axis, h = width / 2: the minimum face is excluded, the maximum
\* face included.
C3_ContainmentLaw ==
    ret.op = "contains" => (ret.val <=> InBox(ret.self, ret.arg))

\* a point on the maximum face of the first axis, contained
C3_Witness ==
    /\ ret.op = "contains" /\ ret.val
    /\ ret.arg[1] = Add(ret.self.center[1], HalfWidth(ret.self))

\* C4: new(center, w) produces no region for w <= 0; for w > 0 it returns a
\* region whose center() is the given center and whose width() is w.
C4_ConstructionValidity ==
    ret.op = "new" =>
        LET c == ret.arg[1]
            w == ret.arg[2]
        IN  /\ Le(w, zero) => (ret.val.value = NoCube /\ Existing = {})
            /\ Gt(w, zero) => /\ ~ret.val.panic
                              /\ cube = ret.val.value
                              /\ center(ret.val.value) = c
                              /\ width(ret.val.value) = w

\* new called with the boundary width 0
C4_Witness == ret.op = "new" /\ ret.arg[2] = zero /\ cube = NoCube

\* C5 (as stated): new(center, w) with w <= 0 hands the caller a failure value
\* it can observe and continue from; the program does not panic.
C5_TypedRecoverableFailure ==
    (ret.op = "new" /\ Le(ret.arg[2], zero)) => ~panicked

\* C5 (amended): new(center, w) with w <= 0 fails its assertion and panics;
\* the call returns no value, neither a region nor a failure value.
C5_InvalidConstructionPanics ==
    (ret.op = "new" /\ Le(ret.arg[2], zero)) =>
        /\ panicked
        /\ ret.val.panic
        /\ Existing = {}

\* new called with a negative width has panicked
C5_Witness == ret.op = "new" /\ Lt(ret.arg[2], zero) /\ panicked

\* C6: for every point p, contained or not, dispatch(C, p) is the number in
\* [0, 2^N) whose bit i is 1 exactly when p_i >= center_i.
C6_DispatchEncoding ==
    ret.op = "dispatch" =>
        /\ ret.val \in Children
        /\ \A i \in 1..Dim :
               Bit(ret.val, i) = (IF Le(ret.self.center[i], ret.arg[i]) THEN 1 ELSE 0)

\* dispatch of a point outside the region, equal to the center on one axis
C6_Witness ==
    /\ ret.op = "dispatch"
    /\ ~contains(ret.self, ret.arg)
    /\ ret.arg[2] = ret.self.center[2]
    /\ ret.val = 2

\* C7: subdivide(C) returns 2^N children; child n has width width(C)/2 and
\* its center on axis i is center_i(C) - width(C)/4 when bit i of n is 0 and
\* center_i(C) + width(C)/4 when it is 1; center (0,0), width 2 gives
\* (-1/2,-1/2), (1/2,-1/2), (-1/2,1/2), (1/2,1/2).
C7_SubdivisionResult ==
    ret.op = "subdivide" =>
        /\ Len(ret.val) = 2^Dim
        /\ \A n \in Children :
              /\ Mul2(ret.val[n + 1].width) = ret.self.width
              /\ \A i \in 1..Dim :
                    Mul2(Mul2(Sub(ret.val[n + 1].center[i], ret.self.center[i])))
                        = (IF Bit(n, i) = 1 THEN ret.self.width ELSE Neg(ret.self.width))
        /\ ret.self = Ncube(<<zero, zero>>, Dy(2, 0)) =>
              [k \in 1..4 |-> ret.val[k].center]
                  = << <<Dy(-1, 1), Dy(-1, 1)>>, <<Dy(1, 1), Dy(-1, 1)>>,
                       <<Dy(-1, 1), Dy(1, 1)>>, <<Dy(1, 1), Dy(1, 1)>> >>

\* subdivide of the region with center (0,0) and width 2
C7_Witness ==
    /\ ret.op = "subdivide"
    /\ ret.self = Ncube(<<zero, zero>>, Dy(2, 0))
    /\ kids = ret.val

\* C8: a point strictly inside child n of subdivide(C) is dispatched to n.
C8_InteriorRoundTrip ==
    OnParent("dispatch") =>
        \A n \in Children : StrictlyInside(kids[n + 1], ret.arg) => ret.val = n

\* a point strictly inside child 2 (upper on the second axis only)
C8_Witness ==
    /\ OnParent("dispatch")
    /\ StrictlyInside(kids[3], ret.arg)

C10_ChildrenInsideParent ==
    (kids # <<>> /\ ret.op = "contains" /\ ret.self \in Range(kids) /\ ret.val)
        => contains(cube, ret.arg)

\* a point on the maximum face of the parent, contained in a child
C10_Witness ==
    /\ kids # <<>> /\ ret.op = "contains" /\ ret.self \in Range(kids) /\ ret.val
    /\ ret.arg[1] = Add(cube.center[1], HalfWidth(cube))
====
